---------------------------- MODULE Spec2Model ----------------------------
(***************************************************************************)
(* Excel vs PDF comparator (src/app.py): one run of the Streamlit script.  *)
(*                                                                         *)
(* Text values are sequences of one-character strings so that str.strip()  *)
(* and str.upper() are computed, not assumed.  Column names are ordinary   *)
(* strings (they are only concatenated and compared).  The PDF text is a   *)
(* sequence of lexical tokens, one per fragment the three regular          *)
(* expressions of extract_pdf_data can tell apart.                         *)
(***************************************************************************)
EXTENDS Integers, Sequences, FiniteSets, TLC

VARIABLES
    pc,                \* position of the run in the script
    excel_file,        \* the uploaded workbook (raw headers and cells), if present
    pdf_file,          \* the uploaded PDF (its text as a token stream), if present
    df_excel,          \* DataFrame built in step 1
    df_pdf,            \* DataFrame built in step 2
    merged,            \* inner join of step 3
    mismatches,        \* rows of merged selected in step 3
    missing_in_pdf,    \* keys of step 4
    missing_in_excel,  \* keys of step 4
    ui,                \* the st.* messages emitted so far, in order
    reports            \* the tables shown with a download button in step 5

vars == <<pc, excel_file, pdf_file, df_excel, df_pdf, merged, mismatches,
          missing_in_pdf, missing_in_excel, ui, reports>>

-----------------------------------------------------------------------------
(* Bounds of the model *)

MaxExcelRows == 2
MaxTokens == 4

-----------------------------------------------------------------------------
(* Python str operations on character sequences *)

LowerAlpha == <<"a","b","c","d","e","f","g","h","i","j","k","l","m",
                "n","o","p","q","r","s","t","u","v","w","x","y","z">>
UpperAlpha == <<"A","B","C","D","E","F","G","H","I","J","K","L","M",
                "N","O","P","Q","R","S","T","U","V","W","X","Y","Z">>

UpperCh(c) ==
    IF \E i \in 1..Len(LowerAlpha) : LowerAlpha[i] = c
    THEN UpperAlpha[CHOOSE i \in 1..Len(LowerAlpha) : LowerAlpha[i] = c]
    ELSE c

\* str.upper()
upper(s) == [i \in 1..Len(s) |-> UpperCh(s[i])]

IsSpace(c) == c \in {" ", "\t", "\n"}

RECURSIVE lstrip(_)
lstrip(s) == IF s # <<>> /\ IsSpace(Head(s)) THEN lstrip(Tail(s)) ELSE s

RECURSIVE rstrip(_)
rstrip(s) ==
    IF s # <<>> /\ IsSpace(s[Len(s)]) THEN rstrip(SubSeq(s, 1, Len(s) - 1)) ELSE s

\* str.strip()
strip(s) == rstrip(lstrip(s))

\* the Python string named by a character sequence
RECURSIVE ToStr(_)
ToStr(s) == IF s = <<>> THEN "" ELSE Head(s) \o ToStr(Tail(s))

\* an empty spreadsheet cell, which pandas reads as NaN
NaN == <<"<NaN>">>

\* str(value) / astype(str): NaN prints as "nan", text is unchanged
str(v) == IF v = NaN THEN <<"n","a","n">> ELSE v

Range(s) == {s[i] : i \in 1..Len(s)}

-----------------------------------------------------------------------------
(* HEADER MAPPING *)

HEADER_MAP ==
    [h \in {"EXAM", "PROGRAMME", "REGISTER NO", "STUDENT NAME", "SEM",
            "SUBJECT ORDER", "SUB CODE", "SUBJECT NAME", "INT", "EXT", "TOT",
            "RESULT", "GRADE", "GRADE POINT"} |->
        CASE h = "REGISTER NO" -> "REGISTER_NO"
          [] h = "STUDENT NAME" -> "NAME"
          [] h = "SEM" -> "SEM_NO"
          [] h = "SUBJECT ORDER" -> "SUB_ORDER"
          [] h = "SUB CODE" -> "SUB_CODE"
          [] h = "SUBJECT NAME" -> "SUBJECT_NAME"
          [] h = "TOT" -> "TOTAL"
          [] h = "GRADE POINT" -> "GRADE_POINT"
          [] OTHER -> h]

\* lines 90 and 95-99: upper-cased, stripped header, renamed when HEADER_MAP knows it
MappedHeader(h) ==
    LET clean_col == ToStr(upper(strip(h)))
    IN  IF clean_col \in DOMAIN HEADER_MAP THEN HEADER_MAP[clean_col] ELSE clean_col

key_cols == <<"REGISTER_NO", "SUB_CODE">>
required_cols == <<"REGISTER_NO", "SUB_CODE", "SUBJECT_NAME", "GRADE", "GRADE_POINT", "RESULT">>
compare_cols == <<"SUBJECT_NAME", "GRADE", "GRADE_POINT", "RESULT">>
pdf_cols == <<"REGISTER_NO", "SUB_CODE", "SUBJECT_NAME", "COURSE_CREDIT", "GRADE",
              "GRADE_POINT", "RESULT">>

-----------------------------------------------------------------------------
(* RESULT NORMALIZATION *)

normalize_result(value) ==
    LET v == upper(strip(str(value)))
    IN  IF v = <<"F">> THEN <<"R","A">>
        ELSE IF v = <<"P">> THEN <<"P","A","S","S">>
        ELSE v

-----------------------------------------------------------------------------
(* PDF PARSER *)
(* The text stream is a sequence of tokens:                                *)
(*   END   the "*** END OF STATEMENT ***" terminator                       *)
(*   REG   a "REGISTER NO : <digits>" label, no = the digits               *)
(*   ITEM  "<n> <code> <name> <credit> <grade> <point> <PASS|RA>", text    *)
(*         that the line pattern of lines 45-48 matches                    *)
(*   FRAG  "<n> <code>" followed by text the line pattern does not match   *)
(*   TXT   any other text                                                  *)

\* line 37: re.split on the terminator
RECURSIVE SplitBlocks(_)
SplitBlocks(text) ==
    IF \E i \in 1..Len(text) : text[i].kind = "END"
    THEN LET i == CHOOSE k \in 1..Len(text) :
                    /\ text[k].kind = "END"
                    /\ \A l \in 1..(k - 1) : text[l].kind # "END"
         IN  <<SubSeq(text, 1, i - 1)>> \o SplitBlocks(SubSeq(text, i + 1, Len(text)))
    ELSE <<text>>

\* the last register number of the block instead of the first
reg_match_last(block) ==
    IF \E i \in 1..Len(block) : block[i].kind = "REG"
    THEN CHOOSE k \in 1..Len(block) :
            /\ block[k].kind = "REG"
            /\ \A l \in (k + 1)..Len(block) : block[l].kind # "REG"
    ELSE 0

\* line 38: re.search of the register number, first match in the block (0: none)
reg_match(block) ==
    IF \E i \in 1..Len(block) : block[i].kind = "REG"
    THEN CHOOSE k \in 1..Len(block) :
            /\ block[k].kind = "REG"
            /\ \A l \in 1..(k - 1) : block[l].kind # "REG"
    ELSE 0

\* line 44: the lookahead \d{1,2}\s+[A-Z]{2,3}\d{4} has no re.I flag, so only an
\* upper-case code starts a new line candidate
IsLineStart(tok) == tok.kind \in {"ITEM", "FRAG"} /\ upper(tok.code) = tok.code

\* line 44: re.split before every line start
RECURSIVE SplitLines(_)
SplitLines(block) ==
    IF \E i \in 2..Len(block) : IsLineStart(block[i])
    THEN LET i == CHOOSE k \in 2..Len(block) :
                    /\ IsLineStart(block[k])
                    /\ \A l \in 2..(k - 1) : ~IsLineStart(block[l])
         IN  <<SubSeq(block, 1, i - 1)>> \o SplitLines(SubSeq(block, i, Len(block)))
    ELSE <<block>>

\* lines 45-48: the pattern is anchored at the start of the line and has re.I
LineMatches(line) == line # <<>> /\ Head(line).kind = "ITEM"

\* lines 50-58
PdfRecord(regno, m) ==
    [c \in Range(pdf_cols) |->
        CASE c = "REGISTER_NO" -> strip(regno)
          [] c = "SUB_CODE" -> upper(strip(m.code))
          [] c = "SUBJECT_NAME" -> strip(m.name)
          [] c = "COURSE_CREDIT" -> strip(m.credit)
          [] c = "GRADE" -> upper(strip(m.grade))
          [] c = "GRADE_POINT" -> strip(m.point)
          [] c = "RESULT" -> upper(strip(m.result))]

\* lines 44-58: the records of one block whose register number is regno
RECURSIVE LineRecords(_, _)
LineRecords(regno, lines) ==
    IF lines = <<>> THEN <<>>
    ELSE (IF LineMatches(Head(lines))
          THEN <<PdfRecord(regno, Head(Head(lines)))>>
          ELSE <<>>) \o LineRecords(regno, Tail(lines))

\* lines 38-41: the register number of a block that has one
BlockKey(block) == block[reg_match(block)].no

\* lines 37-58: the loop over the blocks
RECURSIVE BlockRecords(_)
BlockRecords(blocks) ==
    IF blocks = <<>> THEN <<>>
    ELSE LET block == Head(blocks)
         IN  (IF reg_match(block) = 0
              THEN <<>>
              ELSE LineRecords(BlockKey(block), SplitLines(block)))
             \o BlockRecords(Tail(blocks))

\* line 59, pd.DataFrame(records): a frame is its column names and its rows, each
\* row a function of the column names; no records, no columns
RecordsFrame(records) ==
    [columns |-> IF records = <<>> THEN <<>> ELSE pdf_cols, rows |-> records]

extract_pdf_data(pdf_tokens) == RecordsFrame(BlockRecords(SplitBlocks(pdf_tokens)))

-----------------------------------------------------------------------------
(* STEP 1: Load Excel *)
(* The workbook is [columns: the raw header cells, rows: the raw cells of   *)
(* each row, one per header].                                               *)

EmptyFrame == [columns |-> <<>>, rows |-> <<>>]

HasColumn(df, c) == c \in Range(df.columns)

ColumnIndex(cols, c) == CHOOSE i \in 1..Len(cols) : cols[i] = c

\* lines 89-100: read, rename the headers, astype(str) and strip every cell
LoadedExcel(file) ==
    LET cols == [i \in 1..Len(file.columns) |-> MappedHeader(file.columns[i])]
    IN  [columns |-> cols,
         rows |-> [r \in 1..Len(file.rows) |->
                     [c \in Range(cols) |-> strip(str(file.rows[r][ColumnIndex(cols, c)]))]]]

\* df["RESULT"].apply(normalize_result)
ResultApplied(df) ==
    [df EXCEPT !.rows = [r \in 1..Len(df.rows) |->
                            [df.rows[r] EXCEPT !["RESULT"] = normalize_result(@)]]]

\* the workbook's RESULT column left as loaded
ExcelResultUntouched(df) == df

\* lines 102-104
ExcelResultNormalized(df) == IF HasColumn(df, "RESULT") THEN ResultApplied(df) ELSE df

\* line 128
PdfResultNormalized(df) == ResultApplied(df)

\* line 111
MissingColumns(df) == SelectSeq(required_cols, LAMBDA c : ~HasColumn(df, c))

-----------------------------------------------------------------------------
(* STEP 3: Merge and Compare *)

RowKey(row) == <<row["REGISTER_NO"], row["SUB_CODE"]>>

\* pd.merge raises KeyError when a key column is missing on a side
MergeRaises(left, right) ==
    \E k \in Range(key_cols) : ~HasColumn(left, k) \/ ~HasColumn(right, k)

\* the non-key columns both sides have: the ones that get a suffix
Overlap(left, right) ==
    (Range(left.columns) \cap Range(right.columns)) \ Range(key_cols)

Suffixed(c, overlap, suffix) == IF c \in overlap THEN c \o suffix ELSE c

MergedColumns(left, right) ==
    LET ov == Overlap(left, right)
    IN  [i \in 1..Len(left.columns) |->
            IF left.columns[i] \in Range(key_cols) THEN left.columns[i]
            ELSE Suffixed(left.columns[i], ov, "_EXCEL")]
        \o
        [i \in 1..Len(SelectSeq(right.columns, LAMBDA c : c \notin Range(key_cols))) |->
            Suffixed(SelectSeq(right.columns, LAMBDA c : c \notin Range(key_cols))[i],
                     ov, "_PDF")]

\* one row of the join: the values of left row l and right row r under the merged
\* column names
MergedRow(left, right, l, r) ==
    LET ov == Overlap(left, right)
    IN  [c \in Range(MergedColumns(left, right)) |->
            IF \E lc \in Range(left.columns) :
                    c = (IF lc \in Range(key_cols) THEN lc ELSE Suffixed(lc, ov, "_EXCEL"))
            THEN left.rows[l][CHOOSE lc \in Range(left.columns) :
                    c = (IF lc \in Range(key_cols) THEN lc ELSE Suffixed(lc, ov, "_EXCEL"))]
            ELSE right.rows[r][CHOOSE rc \in Range(right.columns) :
                    c = Suffixed(rc, ov, "_PDF")]]

\* the k-th pair (l, r) of n left and m right rows, left rows first
PairAt(k, m) == <<((k - 1) \div m) + 1, ((k - 1) % m) + 1>>

\* a join on=["REGISTER_NO"] alone
JoinsOnRegisterNo(left, right, l, r) ==
    left.rows[l]["REGISTER_NO"] = right.rows[r]["REGISTER_NO"]

\* on=["REGISTER_NO", "SUB_CODE"]: the pairs of rows the join keeps
JoinsOn(left, right, l, r) == RowKey(left.rows[l]) = RowKey(right.rows[r])

\* lines 131-136, how="inner": every left row with every right row of the same key,
\* in the order of the left rows.  A joined row also records the two rows it came
\* from (left, right), which pandas holds only as the row's values.
pd_merge(left, right) ==
    LET n == Len(left.rows)
        m == Len(right.rows)
        pairs == SelectSeq([k \in 1..(n * m) |-> PairAt(k, m)],
                           LAMBDA p : JoinsOn(left, right, p[1], p[2]))
    IN  [columns |-> MergedColumns(left, right),
         rows |-> [k \in 1..Len(pairs) |->
                     [left |-> pairs[k][1], right |-> pairs[k][2],
                      row |-> MergedRow(left, right, pairs[k][1], pairs[k][2])]]]

\* row.get(name, "")
RowGet(row, name) == IF name \in DOMAIN row THEN row[name] ELSE <<>>

\* the comparison without .upper()
FieldDiffersCaseSensitive(row, col) ==
    strip(str(RowGet(row, col \o "_EXCEL"))) # strip(str(RowGet(row, col \o "_PDF")))

\* lines 143-144: one comparison field of one joined row
FieldDiffers(row, col) ==
    upper(strip(str(RowGet(row, col \o "_EXCEL")))) #
        upper(strip(str(RowGet(row, col \o "_PDF"))))

\* lines 142-146: any(...) over the comparison columns the join has with a _PDF suffix
RowMismatch(columns, row) ==
    \E col \in Range(compare_cols) :
        /\ (col \o "_PDF") \in Range(columns)
        /\ FieldDiffers(row, col)

\* lines 140-149; on a join without rows the selection is empty as well
Mismatches(m) == SelectSeq(m.rows, LAMBDA r : RowMismatch(m.columns, r.row))

-----------------------------------------------------------------------------
(* STEP 4: Missing Record Detection *)

\* a drop_duplicates() that was forgotten
drop_duplicates_keep_all(keys) == keys

\* drop_duplicates(): the first occurrence of every key, in order
RECURSIVE drop_duplicates(_)
drop_duplicates(keys) ==
    IF keys = <<>> THEN <<>>
    ELSE LET init == SubSeq(keys, 1, Len(keys) - 1)
             last == keys[Len(keys)]
         IN  IF last \in Range(init) THEN drop_duplicates(init)
             ELSE Append(drop_duplicates(init), last)

\* df[["REGISTER_NO", "SUB_CODE"]].drop_duplicates()
KeysOf(df) == drop_duplicates([i \in 1..Len(df.rows) |-> RowKey(df.rows[i])])

\* how="left", indicator=True, then the rows marked left_only
LeftOnly(left_keys, right_keys) ==
    SelectSeq(left_keys, LAMBDA k : k \notin Range(right_keys))

-----------------------------------------------------------------------------
(* STEP 5: Display Results *)

\* lines 164-189: the messages of step 5, in order
ResultMessages(mm, mp, me) ==
    IF mm = <<>> /\ mp = <<>> /\ me = <<>>
    THEN <<"success: All records match perfectly">>
    ELSE (IF mm # <<>> THEN <<"error: mismatched rows detected">> ELSE <<>>)
         \o (IF mp # <<>> THEN <<"warning: records missing in PDF">> ELSE <<>>)
         \o (IF me # <<>> THEN <<"warning: extra records found in PDF">> ELSE <<>>)

\* lines 167-189: the tables shown with a download button
ResultReports(mm, mp, me) ==
    (IF mm # <<>> THEN {"mismatch_report.csv"} ELSE {})
    \cup (IF mp # <<>> THEN {"missing_in_pdf.csv"} ELSE {})
    \cup (IF me # <<>> THEN {"extra_in_pdf.csv"} ELSE {})

-----------------------------------------------------------------------------
(* The uploads the model draws from *)

sCS == <<"C","S","1","0","1","1">>
scs == <<"c","s","1","0","1","1">>
sMA == <<"M","A","2","0","2","2">>
sDS == <<"D","S">>
sds == <<"d","s">>
sNONE == <<"N","O","N","E">>
sPASS == <<"P","A","S","S">>
sRA == <<"R","A">>

\* a workbook row, in the order of FullHeaders
BaseRow == <<<<"7">>, sCS, sDS, <<"A">>, <<"8">>, <<"P">>>>

\* one cell of BaseRow changed: <<column, cell>>
RowVariations ==
    {<<1, <<"9">>>>, <<1, NaN>>, <<1, <<" ","7">>>>,
     <<2, scs>>, <<2, sMA>>,
     <<3, sds>>, <<3, NaN>>,
     <<4, <<"B">>>>,
     <<6, sPASS>>, <<6, <<"F">>>>}

ExcelRowVocab == {BaseRow} \cup {[BaseRow EXCEPT ![v[1]] = v[2]] : v \in RowVariations}

FullHeaders ==
    <<<<"R","e","g","i","s","t","e","r"," ","N","o">>,
      <<"S","U","B"," ","C","O","D","E"," ">>,
      <<"S","u","b","j","e","c","t"," ","N","a","m","e">>,
      <<"G","r","a","d","e">>,
      <<"G","r","a","d","e"," ","P","o","i","n","t">>,
      <<" ","r","e","s","u","l","t">>>>

SeqsUpTo(S, n) == UNION {[1..k -> S] : k \in 0..n}

Workbook(headers, rows) == [present |-> TRUE, columns |-> headers, rows |-> rows]
NoWorkbook == [present |-> FALSE, columns |-> <<>>, rows |-> <<>>]

Pdf(tokens) == [present |-> TRUE, text |-> tokens]
NoPdf == [present |-> FALSE, text |-> <<>>]

\* workbooks with every required header and up to MaxExcelRows rows
FullWorkbooks == {Workbook(FullHeaders, rows) : rows \in SeqsUpTo(ExcelRowVocab, MaxExcelRows)}

RemoveAt(s, k) == SubSeq(s, 1, k - 1) \o SubSeq(s, k + 1, Len(s))

GradeBRow == [BaseRow EXCEPT ![4] = <<"B">>]

\* workbooks with one column missing, or with one header HEADER_MAP does not know
PartialWorkbooks ==
    UNION {{Workbook(RemoveAt(FullHeaders, k),
                     [r \in 1..Len(rows) |-> RemoveAt(rows[r], k)]),
            Workbook([FullHeaders EXCEPT ![k] = <<"R","e","m","a","r","k","s">>], rows)}
           : <<k, rows>> \in (1..Len(FullHeaders)) \X {<<BaseRow>>, <<BaseRow, GradeBRow>>}}

End == [kind |-> "END"]
Txt == [kind |-> "TXT"]
Reg(no) == [kind |-> "REG", no |-> no]
Frag(code) == [kind |-> "FRAG", code |-> code]
Item(code, name, grade, result) ==
    [kind |-> "ITEM", code |-> code, name |-> name, credit |-> <<"3">>,
     grade |-> grade, point |-> <<"8">>, result |-> result]

ItemA == Item(sCS, sDS, <<"A">>, sPASS)
ItemB == Item(sCS, sDS, <<"B">>, sRA)
ItemLower == Item(scs, sDS, <<"a">>, <<"p","a","s","s">>)
ItemNone == Item(sCS, sNONE, <<"A">>, sPASS)

TokenVocab == {End, Txt, Reg(<<"7">>), Reg(<<"9">>), Frag(sCS), ItemA, ItemB, ItemLower}

\* token streams of up to MaxTokens tokens
Texts == SeqsUpTo(TokenVocab, MaxTokens)

\* marksheets: one student, one student with a course listed twice, two students
\* after a preamble (the first with a line the pattern does not match), and a PDF
\* without text
FixedTexts ==
    {<<Reg(<<"7">>), ItemA, End>>,
     <<Reg(<<"7">>), ItemA, ItemB, End>>,
     <<Txt, End, Reg(<<"7">>), Frag(sCS), ItemNone, End, Reg(<<"9">>), ItemA, End>>,
     <<>>}

FixedWorkbooks == {Workbook(FullHeaders, <<BaseRow>>), Workbook(FullHeaders, <<BaseRow, GradeBRow>>)}

Uploads ==
    (FullWorkbooks \X {Pdf(t) : t \in FixedTexts})
    \cup (FixedWorkbooks \X {Pdf(t) : t \in Texts})
    \cup (PartialWorkbooks \X {Pdf(<<Reg(<<"7">>), ItemA, End>>), Pdf(<<>>)})
    \cup {<<NoWorkbook, Pdf(<<Reg(<<"7">>), ItemA, End>>)>>,
          <<Workbook(FullHeaders, <<BaseRow>>), NoPdf>>,
          <<NoWorkbook, NoPdf>>}

-----------------------------------------------------------------------------
(* The run *)

Say(msgs) == ui' = ui \o msgs

Init ==
    /\ pc = "start"
    /\ excel_file = NoWorkbook
    /\ pdf_file = NoPdf
    /\ df_excel = EmptyFrame
    /\ df_pdf = EmptyFrame
    /\ merged = EmptyFrame
    /\ mismatches = <<>>
    /\ missing_in_pdf = <<>>
    /\ missing_in_excel = <<>>
    /\ ui = <<>>
    /\ reports = {}

\* lines 83-84: the user's uploads, after which the script runs
Upload ==
    /\ pc = "start"
    /\ \E u \in Uploads :
        /\ excel_file' = u[1]
        /\ pdf_file' = u[2]
    /\ pc' = "uploaded"
    /\ UNCHANGED <<df_excel, df_pdf, merged, mismatches, missing_in_pdf,
                   missing_in_excel, ui, reports>>

\* line 86, both files present
BothUploaded ==
    /\ pc = "uploaded"
    /\ excel_file.present /\ pdf_file.present
    /\ pc' = "step1"
    /\ UNCHANGED <<excel_file, pdf_file, df_excel, df_pdf, merged, mismatches,
                   missing_in_pdf, missing_in_excel, ui, reports>>

\* lines 194-195
AwaitUploads ==
    /\ pc = "uploaded"
    /\ ~excel_file.present \/ ~pdf_file.present
    /\ Say(<<"info: Please upload both Excel and PDF files">>)
    /\ pc' = "waiting"
    /\ UNCHANGED <<excel_file, pdf_file, df_excel, df_pdf, merged, mismatches,
                   missing_in_pdf, missing_in_excel, reports>>

\* lines 88-113
LoadExcel ==
    /\ pc = "step1"
    /\ df_excel' = ExcelResultNormalized(LoadedExcel(excel_file))
    /\ Say(<<"success: Excel file loaded successfully.">>
           \o (IF MissingColumns(df_excel') # <<>>
               THEN <<"warning: Missing columns in Excel after mapping">>
               ELSE <<>>))
    /\ pc' = "step2"
    /\ UNCHANGED <<excel_file, pdf_file, df_pdf, merged, mismatches,
                   missing_in_pdf, missing_in_excel, reports>>

\* lines 115-122: nothing extracted, st.error and st.stop()
ParsePdfEmpty ==
    /\ pc = "step2"
    /\ extract_pdf_data(pdf_file.text).rows = <<>>
    /\ df_pdf' = extract_pdf_data(pdf_file.text)
    /\ Say(<<"info: Extracting structured data from PDF...",
             "error: No valid course data extracted from PDF.">>)
    /\ pc' = "stopped"
    /\ UNCHANGED <<excel_file, pdf_file, df_excel, merged, mismatches,
                   missing_in_pdf, missing_in_excel, reports>>

\* lines 115-128
ParsePdf ==
    /\ pc = "step2"
    /\ extract_pdf_data(pdf_file.text).rows # <<>>
    /\ df_pdf' = PdfResultNormalized(extract_pdf_data(pdf_file.text))
    /\ Say(<<"info: Extracting structured data from PDF...",
             "success: Extracted subject records from PDF.">>)
    /\ pc' = "step3"
    /\ UNCHANGED <<excel_file, pdf_file, df_excel, merged, mismatches,
                   missing_in_pdf, missing_in_excel, reports>>

\* lines 131-136 raise KeyError, caught at lines 191-192
MergeFails ==
    /\ pc = "step3"
    /\ MergeRaises(df_excel, df_pdf)
    /\ Say(<<"error: Error during processing">>)
    /\ pc' = "error"
    /\ UNCHANGED <<excel_file, pdf_file, df_excel, df_pdf, merged, mismatches,
                   missing_in_pdf, missing_in_excel, reports>>

\* lines 130-149
MergeAndCompare ==
    /\ pc = "step3"
    /\ ~MergeRaises(df_excel, df_pdf)
    /\ merged' = pd_merge(df_excel, df_pdf)
    /\ mismatches' = Mismatches(merged')
    /\ pc' = "step4"
    /\ UNCHANGED <<excel_file, pdf_file, df_excel, df_pdf, missing_in_pdf,
                   missing_in_excel, ui, reports>>

\* lines 151-159
MissingRecordDetection ==
    /\ pc = "step4"
    /\ missing_in_pdf' = LeftOnly(KeysOf(df_excel), KeysOf(df_pdf))
    /\ missing_in_excel' = LeftOnly(KeysOf(df_pdf), KeysOf(df_excel))
    /\ pc' = "step5"
    /\ UNCHANGED <<excel_file, pdf_file, df_excel, df_pdf, merged, mismatches,
                   ui, reports>>

\* lines 161-189
DisplayResults ==
    /\ pc = "step5"
    /\ Say(ResultMessages(mismatches, missing_in_pdf, missing_in_excel))
    /\ reports' = ResultReports(mismatches, missing_in_pdf, missing_in_excel)
    /\ pc' = "done"
    /\ UNCHANGED <<excel_file, pdf_file, df_excel, df_pdf, merged, mismatches,
                   missing_in_pdf, missing_in_excel>>

Next ==
    \/ Upload
    \/ BothUploaded
    \/ AwaitUploads
    \/ LoadExcel
    \/ ParsePdfEmpty
    \/ ParsePdf
    \/ MergeFails
    \/ MergeAndCompare
    \/ MissingRecordDetection
    \/ DisplayResults

Spec == Init /\ [][Next]_vars

-----------------------------------------------------------------------------
(* Vocabulary of the properties *)

Joined == pc \in {"step4", "step5", "done"}
Reconciled == pc \in {"step5", "done"}
Extracted == pc \in {"stopped", "step3", "step4", "step5", "done", "error"}

ExcelRows == 1..Len(df_excel.rows)
PdfRows == 1..Len(df_pdf.rows)

ExcelKey(i) == RowKey(df_excel.rows[i])
PdfKey(j) == RowKey(df_pdf.rows[j])
ExcelKeySet == {ExcelKey(i) : i \in ExcelRows}
PdfKeySet == {PdfKey(j) : j \in PdfRows}

NoDuplicates(s) == \A a, b \in 1..Len(s) : s[a] = s[b] => a = b

\* the raw workbook cell behind row i, column col of df_excel
ExcelRaw(i, col) == excel_file.rows[i][ColumnIndex(df_excel.columns, col)]

\* trimmed and upper-cased
Normal(v) == upper(strip(str(v)))

\* the synonym table of the RESULT field
Synonym(v) ==
    IF v = <<"F">> THEN <<"R","A">> ELSE IF v = <<"P">> THEN <<"P","A","S","S">> ELSE v

Canonical(col, v) == IF col = "RESULT" THEN Synonym(Normal(v)) ELSE Normal(v)

Absent(v) == Normal(v) \in {<<>>, <<"N","A","N">>, <<"N","O","N","E">>}

\* the comparison fields both sources have
SharedFields == {c \in Range(compare_cols) : HasColumn(df_excel, c) /\ HasColumn(df_pdf, c)}

\* joined rows of the pair (i, j)
JoinedRowsOf(i, j) == {n \in 1..Len(merged.rows) :
                            merged.rows[n].left = i /\ merged.rows[n].right = j}
MismatchRowsOf(i, j) == {n \in 1..Len(mismatches) :
                            mismatches[n].left = i /\ mismatches[n].right = j}
Reported(n) == MismatchRowsOf(merged.rows[n].left, merged.rows[n].right) # {}

-----------------------------------------------------------------------------
(* C1: after missing-record detection every key that occurs on a side is in *)
(* exactly one of: joined (on both sides), missing_in_pdf, missing_in_excel.  *)
(* The class depends on presence only: a missing list holds no key twice and  *)
(* no key of the side it is missing from.                                     *)
C1_KeyClassification ==
    Reconciled =>
        LET both == {RowKey(merged.rows[n].row) : n \in 1..Len(merged.rows)}
            mp == Range(missing_in_pdf)
            me == Range(missing_in_excel)
        IN  /\ \A k \in ExcelKeySet \cup PdfKeySet :
                /\ k \in both \/ k \in mp \/ k \in me
                /\ ~(k \in both /\ k \in mp)
                /\ ~(k \in both /\ k \in me)
                /\ ~(k \in mp /\ k \in me)
            /\ both = ExcelKeySet \cap PdfKeySet
            /\ mp = ExcelKeySet \ PdfKeySet
            /\ me = PdfKeySet \ ExcelKeySet
            /\ NoDuplicates(missing_in_pdf)
            /\ NoDuplicates(missing_in_excel)

\* a key twice in the workbook and missing from the PDF, a key twice in the PDF
\* and missing from the workbook
C1_Witness ==
    /\ pc = "done"
    /\ \E a, b \in ExcelRows : a # b /\ ExcelKey(a) = ExcelKey(b)
                                /\ ExcelKey(a) \in Range(missing_in_pdf)
    /\ \E a, b \in PdfRows : a # b /\ PdfKey(a) = PdfKey(b)
                              /\ PdfKey(a) \in Range(missing_in_excel)

\* some comparison field of workbook row i and PDF record j differs
PairDiffers(i, j) ==
    \E col \in SharedFields :
        Canonical(col, ExcelRaw(i, col)) # Canonical(col, df_pdf.rows[j][col])

(* C2: every pair of a workbook row and a PDF record with equal keys is      *)
(* joined exactly once (the whole cross product of a duplicated key), and is *)
(* reported in mismatches iff a comparison field differs after trimming,     *)
(* upper-casing and the RESULT synonyms; no mismatch has a one-sided key.    *)
C2_PairsComparedOnce ==
    Joined =>
        /\ \A i \in ExcelRows, j \in PdfRows :
            /\ Cardinality(JoinedRowsOf(i, j)) = (IF ExcelKey(i) = PdfKey(j) THEN 1 ELSE 0)
            /\ Cardinality(MismatchRowsOf(i, j)) =
                    (IF ExcelKey(i) = PdfKey(j) /\ PairDiffers(i, j) THEN 1 ELSE 0)
        /\ \A n \in 1..Len(mismatches) :
            /\ mismatches[n].left \in ExcelRows
            /\ mismatches[n].right \in PdfRows
            /\ RowKey(mismatches[n].row) \in ExcelKeySet \cap PdfKeySet

\* a key twice on both sides: four pairs, three of them reported
C2_Witness ==
    /\ Joined
    /\ Len(merged.rows) = 4
    /\ Len(mismatches) = 3
    /\ \A n \in 1..Len(merged.rows) : RowKey(merged.rows[n].row) = RowKey(merged.rows[1].row)

\* joined rows that involve key k, on either side
RowsOfKey(k) == {n \in 1..Len(merged.rows) :
                    \/ ExcelKey(merged.rows[n].left) = k
                    \/ PdfKey(merged.rows[n].right) = k}
KeyMismatched(k) == \E n \in RowsOfKey(k) : Reported(n)
KeyMatched(k) == \E n \in RowsOfKey(k) : ~Reported(n)
Occurrences(df, k) == Cardinality({i \in 1..Len(df.rows) : RowKey(df.rows[i]) = k})

(* C3 as stated: no key of the intersection has a joined row reported as a   *)
(* mismatch and another joined row that matches.                             *)
C3_KeyNeverBoth ==
    Joined => \A k \in ExcelKeySet \cap PdfKeySet : ~(KeyMismatched(k) /\ KeyMatched(k))

(* C3 as amended: a key that occurs once on each side has exactly one joined *)
(* row, so it is in exactly one of {match, mismatch}; every joined row is    *)
(* reported at most once.                                                    *)
C3_UniqueKeyNeverBoth ==
    Joined =>
        /\ \A k \in ExcelKeySet \cap PdfKeySet :
            (Occurrences(df_excel, k) = 1 /\ Occurrences(df_pdf, k) = 1) =>
                /\ Cardinality(RowsOfKey(k)) = 1
                /\ KeyMismatched(k) # KeyMatched(k)
        /\ \A n \in 1..Len(merged.rows) :
            Cardinality(MismatchRowsOf(merged.rows[n].left, merged.rows[n].right)) <= 1

\* two workbook rows and two PDF records, keys unique, one key matching and one
\* key mismatching
C3_Witness ==
    /\ Joined
    /\ \E k1, k2 \in ExcelKeySet \cap PdfKeySet :
        /\ k1 # k2
        /\ Occurrences(df_excel, k1) = 1 /\ Occurrences(df_pdf, k1) = 1
        /\ Occurrences(df_excel, k2) = 1 /\ Occurrences(df_pdf, k2) = 1
        /\ KeyMismatched(k1) /\ ~KeyMatched(k1)
        /\ KeyMatched(k2) /\ ~KeyMismatched(k2)

\* the key of workbook row i and of PDF record j, trimmed and upper-cased
NormalExcelKey(i) == <<Normal(ExcelRaw(i, "REGISTER_NO")), Normal(ExcelRaw(i, "SUB_CODE"))>>
NormalPdfKey(j) == <<Normal(df_pdf.rows[j]["REGISTER_NO"]), Normal(df_pdf.rows[j]["SUB_CODE"])>>

(* C4: a workbook row and a PDF record are joined iff their keys are equal   *)
(* after trimming and upper-casing on both sides; such a pair's key is in    *)
(* neither missing list.                                                     *)
C4_JoinOnNormalizedKeys ==
    /\ Joined =>
        \A i \in ExcelRows, j \in PdfRows :
            (NormalExcelKey(i) = NormalPdfKey(j)) <=> (JoinedRowsOf(i, j) # {})
    /\ Reconciled =>
        \A i \in ExcelRows, j \in PdfRows :
            (NormalExcelKey(i) = NormalPdfKey(j)) =>
                /\ ExcelKey(i) \notin Range(missing_in_pdf)
                /\ PdfKey(j) \notin Range(missing_in_excel)

\* the comparison fields other than RESULT agree on the joined row n
OthersAgree(n) ==
    \A col \in SharedFields \ {"RESULT"} :
        Canonical(col, ExcelRaw(merged.rows[n].left, col)) =
            Canonical(col, df_pdf.rows[merged.rows[n].right][col])

\* the raw RESULT cell of the workbook row and the RESULT of the PDF record of
\* joined row n denote the same canonical value
SameResult(n) ==
    Synonym(Normal(ExcelRaw(merged.rows[n].left, "RESULT"))) =
        Synonym(Normal(df_pdf.rows[merged.rows[n].right]["RESULT"]))

(* C5: the RESULT synonyms (F -> RA, P -> PASS) are applied to both frames   *)
(* before the comparison: every RESULT held for comparison is canonical, and *)
(* a joined pair whose raw RESULT values denote the same canonical value     *)
(* never differs in RESULT, so it is reported only if another field differs. *)
C5_ResultSynonymsBothSides ==
    /\ pc \in {"step3", "step4", "step5", "done"} =>
        /\ HasColumn(df_excel, "RESULT") =>
            \A i \in ExcelRows :
                df_excel.rows[i]["RESULT"] = Synonym(Normal(ExcelRaw(i, "RESULT")))
        /\ \A j \in PdfRows :
                df_pdf.rows[j]["RESULT"] = Synonym(Normal(df_pdf.rows[j]["RESULT"]))
    /\ Joined =>
        \A n \in 1..Len(merged.rows) :
            (HasColumn(df_excel, "RESULT") /\ SameResult(n)) =>
                /\ ~FieldDiffers(merged.rows[n].row, "RESULT")
                /\ OthersAgree(n) => ~Reported(n)

\* "P" in the workbook against PASS in the PDF, unreported, and "F" against RA
C5_Witness ==
    /\ Joined
    /\ \E n \in 1..Len(merged.rows) :
        /\ ExcelRaw(merged.rows[n].left, "RESULT") = <<"P">>
        /\ df_pdf.rows[merged.rows[n].right]["RESULT"] = <<"P","A","S","S">>
        /\ ~Reported(n)
    /\ \E n \in 1..Len(merged.rows) :
        /\ ExcelRaw(merged.rows[n].left, "RESULT") = <<"F">>
        /\ df_pdf.rows[merged.rows[n].right]["RESULT"] = <<"R","A">>
        /\ ~FieldDiffers(merged.rows[n].row, "RESULT")

\* the key the run holds for workbook row i
HeldKey(i) == <<strip(str(ExcelRaw(i, "REGISTER_NO"))), strip(str(ExcelRaw(i, "SUB_CODE")))>>

AbsentKey(i) == Absent(ExcelRaw(i, "REGISTER_NO")) \/ Absent(ExcelRaw(i, "SUB_CODE"))

(* C6: a workbook row with an absent key field (empty cell, NAN, NONE) is    *)
(* dropped before the join: its key is in no mismatch and in neither missing *)
(* list.                                                                     *)
C6_AbsentKeyDropped ==
    Reconciled =>
        \A i \in 1..Len(excel_file.rows) :
            AbsentKey(i) =>
                /\ HeldKey(i) \notin Range(missing_in_pdf)
                /\ HeldKey(i) \notin Range(missing_in_excel)
                /\ \A n \in 1..Len(mismatches) : RowKey(mismatches[n].row) # HeldKey(i)

\* the text yields no record
NothingExtracted == extract_pdf_data(pdf_file.text).rows = <<>>

\* no workbook row has both key fields
NoUsableRecord ==
    \A i \in 1..Len(excel_file.rows) :
        \E k \in Range(key_cols) :
            \/ ~HasColumn(LoadedExcel(excel_file), k)
            \/ Absent(excel_file.rows[i][ColumnIndex(LoadedExcel(excel_file).columns, k)])

Ended == pc \in {"done", "stopped", "error"}

(* C7: a run whose text yields no record, or whose workbook has no usable    *)
(* record, ends in an error state with a message and emits no report.        *)
C7_EmptySourceAborts ==
    (Ended /\ (NothingExtracted \/ NoUsableRecord)) =>
        /\ pc \in {"stopped", "error"}
        /\ \E m \in Range(ui) : m \in {"error: No valid course data extracted from PDF.",
                                       "error: Error during processing"}
        /\ reports = {}
        /\ merged = EmptyFrame /\ mismatches = <<>>
        /\ missing_in_pdf = <<>> /\ missing_in_excel = <<>>

(* C8: with a key or comparison column missing from the workbook after the   *)
(* header mapping, a run on a PDF that yields records warns and completes    *)
(* (it does not end in the error state).                                     *)
C8_MissingColumnOnlyWarns ==
    (Ended /\ MissingColumns(df_excel) # <<>> /\ ~NothingExtracted) =>
        /\ "warning: Missing columns in Excel after mapping" \in Range(ui)
        /\ pc = "done"

\* the two values of comparison field col on the joined row n
ExcelValue(n, col) == df_excel.rows[merged.rows[n].left][col]
PdfValue(n, col) == df_pdf.rows[merged.rows[n].right][col]

(* C9: on a joined pair, a comparison field absent (empty, NAN or NONE) on   *)
(* both sides never makes the pair a mismatch, and a field absent on exactly *)
(* one side always does.                                                     *)
C9_AbsenceSymmetry ==
    Joined =>
        \A n \in 1..Len(merged.rows) :
            /\ (\A col \in SharedFields :
                    \/ Absent(ExcelValue(n, col)) /\ Absent(PdfValue(n, col))
                    \/ Normal(ExcelValue(n, col)) = Normal(PdfValue(n, col)))
                => ~Reported(n)
            /\ (\E col \in SharedFields :
                    Absent(ExcelValue(n, col)) # Absent(PdfValue(n, col)))
                => Reported(n)

\* positions of the token stream
Positions == 1..Len(pdf_file.text)
TokenAt(p) == pdf_file.text[p]

\* p and q lie in the same block: no terminator at or between them
SameBlock(p, q) ==
    \A l \in Positions : ((p <= l /\ l <= q) \/ (q <= l /\ l <= p)) => TokenAt(l).kind # "END"

\* the first register number of the block of p, when the block has one
KeyPositions(p) == {q \in Positions : SameBlock(p, q) /\ TokenAt(q).kind = "REG"}
FirstKeyPosition(p) == CHOOSE q \in KeyPositions(p) : \A r \in KeyPositions(p) : q <= r

\* a line candidate starts at p: at the start of a block or at a line start
CandidateAt(p) ==
    /\ TokenAt(p).kind # "END"
    /\ \/ p = 1
       \/ TokenAt(p - 1).kind = "END"
       \/ IsLineStart(TokenAt(p))

\* the candidates that match the line pattern in a block with a register number
Producing == {p \in Positions :
                CandidateAt(p) /\ TokenAt(p).kind = "ITEM" /\ KeyPositions(p) # {}}

\* the n-th producing position in stream order
NthProducing(n) == CHOOSE p \in Producing : Cardinality({q \in Producing : q < p}) = n - 1

(* C10: extract_pdf_data returns one record per line candidate that matches  *)
(* the line pattern and lies in a block with a register number, in stream    *)
(* order and without deduplication, each with the register number of its own *)
(* block; a block without a key and a candidate that does not match give no  *)
(* record, and no error is raised.                                           *)
C10_ExtractedRecords ==
    Extracted =>
        /\ Len(df_pdf.rows) = Cardinality(Producing)
        /\ \A n \in PdfRows :
            LET p == NthProducing(n)
                rec == df_pdf.rows[n]
            IN  /\ rec["REGISTER_NO"] = TokenAt(FirstKeyPosition(p)).no
                /\ rec["SUB_CODE"] = upper(TokenAt(p).code)
                /\ rec["SUBJECT_NAME"] = TokenAt(p).name
                /\ rec["COURSE_CREDIT"] = TokenAt(p).credit
                /\ rec["GRADE"] = upper(TokenAt(p).grade)
                /\ rec["GRADE_POINT"] = TokenAt(p).point
                /\ rec["RESULT"] = upper(TokenAt(p).result)
        /\ pc = "stopped" <=> Producing = {}
        /\ (pc \in {"stopped", "step3"}) => "error: Error during processing" \notin Range(ui)

\* two blocks with different register numbers after a block without one, and a
\* candidate the line pattern does not match
C10_Witness ==
    /\ pc = "step3"
    /\ \E p \in Positions : TokenAt(p).kind # "END" /\ KeyPositions(p) = {}
    /\ \E n, m \in PdfRows : df_pdf.rows[n]["REGISTER_NO"] # df_pdf.rows[m]["REGISTER_NO"]
    /\ \E p \in Positions : TokenAt(p).kind = "FRAG" /\ KeyPositions(p) # {}

=============================================================================
